---------------------------- MODULE Spec2Model ----------------------------
(***************************************************************************)
(* Model of blenderseed's render driver (render.py): the render lock, the  *)
(* launch of appleseed.cli and the decoding of the tile stream the child   *)
(* writes to its standard output.                                          *)
(*                                                                         *)
(* Conventions.                                                            *)
(*  - The pipe is a sequence of bytes.  struct.unpack("I...") is modelled  *)
(*    by what it does on a little-endian host: four bytes to one number.   *)
(*  - A 32-bit float is identified with its bit pattern (the same four     *)
(*    bytes read as a number): array('f').fromstring is a bijection on     *)
(*    groups of four bytes and no claim does arithmetic on samples.        *)
(*  - os.read(fd, n) returns between 1 and n bytes while the child has     *)
(*    output left, and 0 bytes once the write end is closed.               *)
(*  - RenderEngine.test_break() reads a flag that, once set, stays set     *)
(*    for the rest of the render.                                          *)
(***************************************************************************)
EXTENDS Integers, Sequences, FiniteSets, TLC

\* ------------------------------------------------------------------ bounds

\* Longest stream the child writes, in chunks.
MaxChunks == 2
\* Render resolution (util.get_render_resolution).
Width == 4
Height == 4
\* Threads that call render() concurrently.
NThreads == 3
\* Side of the image the highlight handler is run on by itself.
HighlightImage == 8

\* ------------------------------------------------------- program constants

ChunkHeaderSize == 8
TileHeaderSize == 20
HighlightHeaderSize == 16
bracket_extent == 5
\* 1.0 as an IEEE-754 single: the four components of bracket_color.
OneFloat == 1065353216

\* ------------------------------------------------------------ pure helpers

Min(a, b) == IF a < b THEN a ELSE b
Max(a, b) == IF a > b THEN a ELSE b

\* struct.pack("I", v) on a little-endian host.
PackU32(v) ==
    << v % 256, (v \div 256) % 256, (v \div 65536) % 256, (v \div 16777216) % 256 >>

\* Field i (0-based) of struct.unpack("I" * n, buf).
UnpackU32(buf, i) ==
    buf[4*i + 1] + 256 * buf[4*i + 2] + 65536 * buf[4*i + 3] + 16777216 * buf[4*i + 4]

RECURSIVE Flatten(_)
Flatten(ss) == IF ss = << >> THEN << >> ELSE Head(ss) \o Flatten(Tail(ss))

\* Python's s[a:b] for 0 <= a <= b.
PySlice(s, a, b) == SubSeq(s, Min(a, Len(s)) + 1, Min(b, Len(s)))

\* floats = array.array('f'); floats.fromstring(tile_data)
FromString(data) == [i \in 1..(Len(data) \div 4) |-> UnpackU32(data, i - 1)]


\* ------------------------------------------------ what the child can write

\* The samples of a tile: sample i (0-based, row-major, channel-interleaved)
\* is base * (i + 1), packed as one 32-bit word.
TilePayload(w, h, c, base) ==
    Flatten([i \in 1..(w * h * c) |-> PackU32(base * i)])

TileDataChunk(x, y, w, h, c, base) ==
    [type |-> 1, size |-> TileHeaderSize + w * h * c * 4,
     fields |-> << x, y, w, h, c >>, payload |-> TilePayload(w, h, c, base)]

TileHighlightChunk(x, y, w, h) ==
    [type |-> 2, size |-> HighlightHeaderSize,
     fields |-> << x, y, w, h >>, payload |-> << >>]

UnknownChunk(type, size) ==
    [type |-> type, size |-> size, fields |-> << >>,
     payload |-> [i \in 1..size |-> IF i % 4 = 1 THEN 7 ELSE 0]]

\* The bytes of one chunk on the wire (spec section 6; the child's side).
Encode(ch) ==
    PackU32(ch.type) \o PackU32(ch.size)
      \o Flatten([i \in 1..Len(ch.fields) |-> PackU32(ch.fields[i])])
      \o ch.payload

\* The chunks the child may write.
ChunkCatalogue ==
    { TileDataChunk(1, 2, 1, 2, 1, 10),      \* 1x2, one channel, samples 10, 20
      TileDataChunk(0, 0, 2, 2, 4, 5),       \* 2x2, four channels, top left corner
      TileDataChunk(5, 1, 1, 1, 1, 10),      \* right of every window
      TileDataChunk(1, 1, 0, 1, 1, 10),      \* no columns; left of the border window
      TileDataChunk(0, 2, 4, 1, 1, 10),      \* a row across the image
      TileHighlightChunk(0, 0, 3, 3),
      TileHighlightChunk(1, 5, 1, 1),        \* below every window
      TileHighlightChunk(1, 0, 1, 1),        \* above the border window
      UnknownChunk(99, 12) }

RECURSIVE ChunkSeqs(_)
ChunkSeqs(n) ==
    IF n = 0 THEN { << >> }
    ELSE LET shorter == ChunkSeqs(n - 1)
         IN  shorter \cup { Append(s, ch) : s \in { t \in shorter : Len(t) = n - 1 },
                                            ch \in ChunkCatalogue }

Streams == { Flatten([i \in 1..Len(s) |-> Encode(s[i])]) : s \in ChunkSeqs(MaxChunks) }

\* ------------------------------------------------------ scene configuration

\* The settings of a scene: the render resolution (render.py 175),
\* scene.render.use_border and the border, in quarters of the image
\* (border_min_x = bminx / 4, ...), and scene.appleseed.renderer_passes.
Scene(width, height, use_border, bminx, bmaxx, bminy, bmaxy, passes) ==
    [width |-> width, height |-> height, use_border |-> use_border,
     bminx |-> bminx, bmaxx |-> bmaxx, bminy |-> bminy, bmaxy |-> bmaxy,
     passes |-> passes]

\* The scenes rendered: the whole image; a border of half the image; a border
\* of no column; a border whose x bounds are exchanged.
Configs ==
    { Scene(Width, Height, FALSE, 0, 4, 0, 4, 1),
      Scene(Width, Height, TRUE, 1, 3, 1, 3, 1),
      Scene(Width, Height, TRUE, 2, 2, 1, 3, 2),
      Scene(Width, Height, TRUE, 3, 1, 1, 2, 1) }

\* int(border * size) for a border of q quarters.
IntScale(q, size) == (q * size) \div 4

\* Compute render window (render.py 180-190).
RenderWindow(cfg) ==
    IF cfg.use_border
    THEN [min_x |-> IntScale(cfg.bminx, cfg.width),
          min_y |-> cfg.height - IntScale(cfg.bmaxy, cfg.height),
          max_x |-> IntScale(cfg.bmaxx, cfg.width) - 1,
          max_y |-> cfg.height - IntScale(cfg.bminy, cfg.height) - 1]
    ELSE [min_x |-> 0, min_y |-> 0, max_x |-> cfg.width - 1, max_y |-> cfg.height - 1]

\* Compute total pixel count (render.py 193).
TotalPixels(w, passes) ==
    (w.max_x - w.min_x + 1) * (w.max_y - w.min_y + 1) * passes


\* ------------------------------------------------------------------- state

VARIABLES
    config,           \* the scene settings of this render
    stream,           \* the bytes the child writes if it runs to completion
    pos,              \* bytes read from the pipe so far
    eof,              \* a read has returned no bytes: the write end is closed
    cancel,           \* what test_break() returns
    pc,               \* where __render_project_file is
    proc,             \* the child: "none", "running", "killed"
    win,              \* min_x, min_y, max_x, max_y
    rendered_pixels,  \* self.rendered_pixels
    total_pixels,     \* self.total_pixels
    chunk,            \* chunk_type, chunk_size of the last header decoded
    tile,             \* tile_x, tile_y, tile_w, tile_h, tile_c of the last tile header
    tile_size,        \* bytes of tile payload wanted
    tile_data,        \* bytes of tile payload read so far
    exc,              \* the exception that left __render_project_file, or "none"
    sink,             \* the calls made on the engine: results committed, progress
    render_lock,      \* RenderAppleseed.render_lock is held
    rpc,              \* where each thread's call of render() is
    child             \* the appleseed.cli process each call launched

\* One render's stream decoding, and the threads that call render().
streamVars == << config, stream, pos, eof, cancel, pc, proc, win, rendered_pixels,
                 total_pixels, chunk, tile, tile_size, tile_data, exc, sink >>
threadVars == << render_lock, rpc, child >>
vars == << streamVars, threadVars >>

Threads == 1..NThreads

NoTile == [x |-> 0, y |-> 0, w |-> 0, h |-> 0, c |-> 0]
NoWindow == [min_x |-> 0, min_y |-> 0, max_x |-> 0, max_y |-> 0]

Init ==
    /\ config \in Configs
    /\ stream \in Streams
    /\ pos = 0
    /\ eof = FALSE
    /\ cancel = FALSE
    /\ pc = "start"
    /\ proc = "none"
    /\ win = NoWindow
    /\ rendered_pixels = 0
    /\ total_pixels = 0
    /\ chunk = [type |-> 0, size |-> 0]
    /\ tile = NoTile
    /\ tile_size = 0
    /\ tile_data = << >>
    /\ exc = "none"
    /\ sink = << >>
    \* this render holds the lock; no other thread has called render()
    /\ render_lock = TRUE
    /\ rpc = [t \in Threads |-> IF t = 1 THEN "project" ELSE "idle"]
    /\ child = [t \in Threads |-> "none"]

\* ------------------------------------------------------------ the pipe

\* How many bytes os.read(fd, n) may return: nothing for n = 0; nothing, for
\* good, once the write end is closed; otherwise between 1 and n of the bytes
\* the child still writes, or nothing when the child ends here.
ReadCounts(n) ==
    IF n = 0 \/ eof THEN {0}
    ELSE {0} \cup (1..Min(n, Len(stream) - pos))

\* os.read(process.stdout.fileno(), n) returning k bytes: its effect on the
\* pipe, and the bytes it returns.
OsRead(n, k) ==
    /\ k \in ReadCounts(n)
    /\ pos' = pos + k
    /\ eof' = (eof \/ (n > 0 /\ k = 0))

Data(k) == SubSeq(stream, pos + 1, pos + k)


\* --------------------------------------------------------- window clipping

\* Outside with the test against the window's last row left out.
OutsideWithoutBelow(t, w) ==
    \/ t.x > w.max_x
    \/ t.x + t.w - 1 < w.min_x
    \/ t.y + t.h - 1 < w.min_y

\* Ignore tiles completely outside the render window (render.py 269-273, 320-324).
Outside(t, w) ==
    \/ t.x > w.max_x
    \/ t.x + t.w - 1 < w.min_x
    \/ t.y > w.max_y
    \/ t.y + t.h - 1 < w.min_y

\* Clip with the tile's last column not limited to the window's.
ClipWithoutRightEdge(t, w) ==
    LET ix0 == Max(t.x, w.min_x)
        iy0 == Max(t.y, w.min_y)
        ix1 == t.x + t.w - 1
        iy1 == Min(t.y + t.h - 1, w.max_y)
    IN  [ix0 |-> ix0, iy0 |-> iy0, ix1 |-> ix1, iy1 |-> iy1,
         skip_x |-> ix0 - t.x, skip_y |-> iy0 - t.y,
         take_x |-> ix1 - ix0 + 1, take_y |-> iy1 - iy0 + 1,
         x0 |-> ix0 - w.min_x, x1 |-> ix1 - w.min_x,
         y0 |-> w.max_y - iy1, y1 |-> w.max_y - iy0]

\* Clip with the rows of the window counted from the top.
ClipWithoutFlip(t, w) ==
    LET ix0 == Max(t.x, w.min_x)
        iy0 == Max(t.y, w.min_y)
        ix1 == Min(t.x + t.w - 1, w.max_x)
        iy1 == Min(t.y + t.h - 1, w.max_y)
    IN  [ix0 |-> ix0, iy0 |-> iy0, ix1 |-> ix1, iy1 |-> iy1,
         skip_x |-> ix0 - t.x, skip_y |-> iy0 - t.y,
         take_x |-> ix1 - ix0 + 1, take_y |-> iy1 - iy0 + 1,
         x0 |-> ix0 - w.min_x, x1 |-> ix1 - w.min_x,
         y0 |-> iy0 - w.min_y, y1 |-> iy1 - w.min_y]

\* Intersection of tile and window, in image space and in window space
\* (render.py 275-285, 296-298, 326-336).
Clip(t, w) ==
    LET ix0 == Max(t.x, w.min_x)
        iy0 == Max(t.y, w.min_y)
        ix1 == Min(t.x + t.w - 1, w.max_x)
        iy1 == Min(t.y + t.h - 1, w.max_y)
    IN  [ix0 |-> ix0, iy0 |-> iy0, ix1 |-> ix1, iy1 |-> iy1,
         skip_x |-> ix0 - t.x, skip_y |-> iy0 - t.y,
         take_x |-> ix1 - ix0 + 1, take_y |-> iy1 - iy0 + 1,
         x0 |-> ix0 - w.min_x, x1 |-> ix1 - w.min_x,
         y0 |-> w.max_y - iy1, y1 |-> w.max_y - iy0]

\* ExtractPixels with the rows and columns clipped away not skipped.
ExtractPixelsUnskipped(t, data, cl) ==
    LET floats == FromString(data)
        Row(r) ==
            LET y == cl.take_y - r
                start_pix == y * t.w
            IN  [i \in 1..cl.take_x |->
                    PySlice(floats, (start_pix + i - 1) * 4, (start_pix + i - 1) * 4 + 4)]
    IN  Flatten([r \in 1..cl.take_y |-> Row(r)])

\* Extract relevant tile data (render.py 287-294): rows from the last taken
\* row up to the first, each pixel the slice floats[p * 4 : p * 4 + 4].
ExtractPixels(t, data, cl) ==
    LET floats == FromString(data)
        Row(r) ==
            LET y == cl.take_y - r
                start_pix == (cl.skip_y + y) * t.w + cl.skip_x
            IN  [i \in 1..cl.take_x |->
                    PySlice(floats, (start_pix + i - 1) * 4, (start_pix + i - 1) * 4 + 4)]
    IN  Flatten([r \in 1..cl.take_y |-> Row(r)])

\* begin_result(x, y, w, h); layer.rect = rect; end_result(result).
Result(x, y, w, h, rect) ==
    [op |-> "result", x |-> x, y |-> y, w |-> w, h |-> h, rect |-> rect]

\* update_progress(rendered / total), the fraction kept as its two terms.
Progress(rendered, total) ==
    [op |-> "progress", rendered |-> rendered, total |-> total]

bracket_color == << OneFloat, OneFloat, OneFloat, OneFloat >>

\* __draw_hline and __draw_vline (render.py 364-374).
DrawHLine(x, y, length) == Result(x, y, length, 1, [i \in 1..length |-> bracket_color])
DrawVLine(x, y, length) == Result(x, y, 1, length, [i \in 1..length |-> bracket_color])

\* Bracket with every segment of the full extent, however small the tile.
BracketUnclipped(cl) ==
    << DrawHLine(cl.x0, cl.y1, bracket_extent),
       DrawVLine(cl.x0, cl.y1 - bracket_extent + 1, bracket_extent),
       DrawHLine(cl.x1 - bracket_extent + 1, cl.y1, bracket_extent),
       DrawVLine(cl.x1, cl.y1 - bracket_extent + 1, bracket_extent),
       DrawHLine(cl.x0, cl.y0, bracket_extent),
       DrawVLine(cl.x0, cl.y0, bracket_extent),
       DrawHLine(cl.x1 - bracket_extent + 1, cl.y0, bracket_extent),
       DrawVLine(cl.x1, cl.y0, bracket_extent) >>

\* The eight bracket segments of a highlighted tile (render.py 338-360).
Bracket(cl) ==
    LET bracket_width == Min(bracket_extent, cl.x1 - cl.x0 + 1)
        bracket_height == Min(bracket_extent, cl.y1 - cl.y0 + 1)
    IN  << DrawHLine(cl.x0, cl.y1, bracket_width),
           DrawVLine(cl.x0, cl.y1 - bracket_height + 1, bracket_height),
           DrawHLine(cl.x1 - bracket_width + 1, cl.y1, bracket_width),
           DrawVLine(cl.x1, cl.y1 - bracket_height + 1, bracket_height),
           DrawHLine(cl.x0, cl.y0, bracket_width),
           DrawVLine(cl.x0, cl.y0, bracket_height),
           DrawHLine(cl.x1 - bracket_width + 1, cl.y0, bracket_width),
           DrawVLine(cl.x1, cl.y0, bracket_height) >>


\* ------------------------------------------------- __render_project_file

\* Locals go out of scope when their function returns or is left by an
\* exception, and chunk_type and chunk_size are not read again before the next
\* header overwrites them: they are cleared at those points.
NoChunk == [type |-> 0, size |-> 0]

TileLocalsDiscarded ==
    /\ tile' = NoTile
    /\ tile_size' = 0
    /\ tile_data' = << >>

\* struct.unpack was handed a buffer of the wrong length.
RaiseStructError ==
    /\ pc' = "raised"
    /\ exc' = "struct.error"
    /\ chunk' = NoChunk
    /\ TileLocalsDiscarded

\* Lines 174-210: reset the counter, compute the window and the pixel total,
\* launch appleseed.cli.  Popen either starts the child or raises OSError,
\* which is reported and ends the render.
Launch ==
    /\ pc = "start"
    /\ rendered_pixels' = 0
    /\ win' = RenderWindow(config)
    /\ total_pixels' = TotalPixels(RenderWindow(config), config.passes)
    /\ \/ proc' = "running" /\ pc' = "test_break"
       \/ proc' = "none" /\ pc' = "returned"
    /\ UNCHANGED << config, stream, pos, eof, cancel, chunk, tile, tile_size,
                    tile_data, exc, sink >>
    /\ UNCHANGED threadVars

\* The loop condition with the cancellation check left out.
LoopConditionWithoutCheck == TRUE

\* Line 213: while not self.test_break().
LoopCondition == ~cancel

TestBreak ==
    /\ pc = "test_break"
    /\ pc' = IF LoopCondition THEN "chunk_header" ELSE "kill"
    /\ UNCHANGED << config, stream, pos, eof, cancel, proc, win, rendered_pixels,
                    total_pixels, chunk, tile, tile_size, tile_data, exc, sink >>
    /\ UNCHANGED threadVars

\* The header test with the empty read not recognised.
HeaderNeverEmpty(data) == FALSE

\* Line 216: if not chunk_header_data: break.
HeaderIsEmpty(data) == data = << >>

\* Lines 224-235: the handler a chunk type is dispatched to.
Dispatch(type) ==
    IF type = 1 THEN "tile_header"
    ELSE IF type = 2 THEN "highlight_header"
    ELSE "skip"

\* Lines 215-235: one os.read of 8 bytes; no bytes leave the loop; struct.unpack
\* raises struct.error unless it is handed exactly 8 bytes.
ReadChunkHeader ==
    /\ pc = "chunk_header"
    /\ \E k \in ReadCounts(ChunkHeaderSize) :
         /\ OsRead(ChunkHeaderSize, k)
         /\ IF HeaderIsEmpty(Data(k))
            THEN pc' = "kill" /\ UNCHANGED << chunk, exc, tile, tile_size, tile_data >>
            ELSE IF Len(Data(k)) /= ChunkHeaderSize
            THEN RaiseStructError
            ELSE /\ chunk' = [type |-> UnpackU32(Data(k), 0), size |-> UnpackU32(Data(k), 1)]
                 /\ pc' = Dispatch(UnpackU32(Data(k), 0))
                 /\ UNCHANGED << exc, tile, tile_size, tile_data >>
    /\ UNCHANGED << config, stream, cancel, proc, win, rendered_pixels,
                    total_pixels, sink >>
    /\ UNCHANGED threadVars

\* Lines 250-259: one os.read of 20 bytes, unpacked as five fields.
ReadTileHeader ==
    /\ pc = "tile_header"
    /\ \E k \in ReadCounts(TileHeaderSize) :
         /\ OsRead(TileHeaderSize, k)
         /\ IF Len(Data(k)) /= TileHeaderSize
            THEN RaiseStructError
            ELSE /\ tile' = [x |-> UnpackU32(Data(k), 0), y |-> UnpackU32(Data(k), 1),
                             w |-> UnpackU32(Data(k), 2), h |-> UnpackU32(Data(k), 3),
                             c |-> UnpackU32(Data(k), 4)]
                 /\ tile_size' = UnpackU32(Data(k), 2) * UnpackU32(Data(k), 3)
                                   * UnpackU32(Data(k), 4) * 4
                 /\ tile_data' = << >>
                 /\ pc' = "tile_data"
                 /\ UNCHANGED << exc, chunk >>
    /\ UNCHANGED << config, stream, cancel, proc, win, rendered_pixels,
                    total_pixels, sink >>
    /\ UNCHANGED threadVars

\* The payload loop's condition with the cancellation check left out.
PayloadLoopConditionWithoutCheck == Len(tile_data) < tile_size

\* Line 260: while len(tile_data) < tile_size and not self.test_break().
PayloadLoopCondition == Len(tile_data) < tile_size /\ ~cancel

\* Lines 260-261: one turn of the payload loop.
ReadTileData ==
    /\ pc = "tile_data"
    /\ IF PayloadLoopCondition
       THEN \E k \in ReadCounts(tile_size - Len(tile_data)) :
              /\ OsRead(tile_size - Len(tile_data), k)
              /\ tile_data' = tile_data \o Data(k)
              /\ UNCHANGED pc
       ELSE /\ pc' = "tile_check"
            /\ UNCHANGED << pos, eof, tile_data >>
    /\ UNCHANGED << config, stream, cancel, proc, win, rendered_pixels,
                    total_pixels, chunk, tile, tile_size, exc, sink >>
    /\ UNCHANGED threadVars

\* The check after the payload loop left out.
BreakAfterPayloadMissing == FALSE

\* Line 262: if self.test_break(): return False.
BreakAfterPayload == cancel

\* The image update with nothing handed to the engine.
CommitMissing(t, data, cl) == sink

\* Lines 300-304: begin_result, layer.rect = pix, end_result.
Commit(t, data, cl) ==
    Append(sink, Result(cl.x0, cl.y0, cl.take_x, cl.take_y, ExtractPixels(t, data, cl)))

\* Lines 262-304: give up on cancellation, ignore a tile outside the window,
\* else clip the tile and commit its pixels.
ProcessTile ==
    /\ pc = "tile_check"
    /\ IF BreakAfterPayload
       THEN /\ pc' = "kill" /\ UNCHANGED sink
            /\ chunk' = NoChunk /\ TileLocalsDiscarded
       ELSE IF Outside(tile, win)
       THEN /\ pc' = "test_break" /\ UNCHANGED sink
            /\ chunk' = NoChunk /\ TileLocalsDiscarded
       ELSE /\ sink' = Commit(tile, tile_data, Clip(tile, win))
            /\ pc' = "tile_progress"
            /\ UNCHANGED << chunk, tile, tile_size, tile_data >>
    /\ UNCHANGED << config, stream, pos, eof, cancel, proc, win, rendered_pixels,
                    total_pixels, exc >>
    /\ UNCHANGED threadVars

\* Lines 306-310: count the pixels committed and report progress.  The
\* division raises ZeroDivisionError when total_pixels is 0.
UpdateProgress ==
    /\ pc = "tile_progress"
    /\ LET cl == Clip(tile, win)
           rendered == rendered_pixels + cl.take_x * cl.take_y
       IN  /\ rendered_pixels' = rendered
           /\ IF total_pixels = 0
              THEN /\ pc' = "raised" /\ exc' = "ZeroDivisionError"
                   /\ UNCHANGED sink
              ELSE /\ sink' = Append(sink, Progress(rendered, total_pixels))
                   /\ pc' = "test_break" /\ UNCHANGED exc
    /\ chunk' = NoChunk
    /\ TileLocalsDiscarded
    /\ UNCHANGED << config, stream, pos, eof, cancel, proc, win, total_pixels >>
    /\ UNCHANGED threadVars

\* Lines 314-318: one os.read of 16 bytes, unpacked as four fields.
ReadHighlightHeader ==
    /\ pc = "highlight_header"
    /\ \E k \in ReadCounts(HighlightHeaderSize) :
         /\ OsRead(HighlightHeaderSize, k)
         /\ IF Len(Data(k)) /= HighlightHeaderSize
            THEN RaiseStructError
            ELSE /\ tile' = [x |-> UnpackU32(Data(k), 0), y |-> UnpackU32(Data(k), 1),
                             w |-> UnpackU32(Data(k), 2), h |-> UnpackU32(Data(k), 3),
                             c |-> 0]
                 /\ pc' = "highlight_check"
                 /\ UNCHANGED << exc, chunk, tile_size, tile_data >>
    /\ UNCHANGED << config, stream, cancel, proc, win, rendered_pixels,
                    total_pixels, sink >>
    /\ UNCHANGED threadVars

\* Lines 320-362: a tile outside the window is ignored, else its bracket is
\* drawn.
DrawHighlight ==
    /\ pc = "highlight_check"
    /\ sink' = IF Outside(tile, win) THEN sink ELSE sink \o Bracket(Clip(tile, win))
    /\ pc' = "test_break"
    /\ chunk' = NoChunk
    /\ TileLocalsDiscarded
    /\ UNCHANGED << config, stream, pos, eof, cancel, proc, win, rendered_pixels,
                    total_pixels, exc >>
    /\ UNCHANGED threadVars

\* Lines 233-235: one os.read of chunk_size bytes, whatever it returns.
SkipUnknown ==
    /\ pc = "skip"
    /\ \E k \in ReadCounts(chunk.size) : OsRead(chunk.size, k)
    /\ pc' = "test_break"
    /\ chunk' = NoChunk
    /\ UNCHANGED << config, stream, cancel, proc, win, rendered_pixels,
                    total_pixels, tile, tile_size, tile_data, exc, sink >>
    /\ UNCHANGED threadVars

\* Lines 237-246: process.kill(), then the render cache is deleted when
\* scene.appleseed.clean_cache asks for it.  A material preview passes no
\* project_dir, and os.path.exists(None) raises TypeError.
Kill ==
    /\ pc = "kill"
    /\ proc' = "killed"
    /\ \E clean_cache \in BOOLEAN, is_preview \in BOOLEAN :
         IF clean_cache /\ is_preview
         THEN pc' = "raised" /\ exc' = "TypeError"
         ELSE pc' = "returned" /\ UNCHANGED exc
    /\ UNCHANGED << config, stream, pos, eof, cancel, win, rendered_pixels,
                    total_pixels, chunk, tile, tile_size, tile_data, sink >>
    /\ UNCHANGED threadVars

\* The user asks Blender to stop the render: from now on test_break() is true.
RequestCancel ==
    /\ ~cancel
    /\ pc \notin {"returned", "raised"}
    /\ cancel' = TRUE
    /\ UNCHANGED << config, stream, pos, eof, pc, proc, win, rendered_pixels,
                    total_pixels, chunk, tile, tile_size, tile_data, exc, sink >>
    /\ UNCHANGED threadVars

\* The steps of the driver itself.
Driver ==
    \/ Launch
    \/ TestBreak
    \/ ReadChunkHeader
    \/ ReadTileHeader
    \/ ReadTileData
    \/ ProcessTile
    \/ UpdateProgress
    \/ ReadHighlightHeader
    \/ DrawHighlight
    \/ SkipUnknown
    \/ Kill

Next == Driver \/ RequestCancel

Spec == Init /\ [][Next]_vars

\* The interpreter keeps running the driver; nothing obliges the user to cancel.
FairSpec == Spec /\ WF_vars(Driver)

\* One render of a child that writes at most one chunk, under the same
\* scheduling: what becomes of a chunk in flight does not depend on the
\* chunks before it.
OneChunkStreams == { Flatten([i \in 1..Len(s) |-> Encode(s[i])]) : s \in ChunkSeqs(1) }

OneChunkInit == Init /\ stream \in OneChunkStreams

OneChunkFairSpec == OneChunkInit /\ [][Next]_vars /\ WF_vars(Driver)

\* ------------------------------------------- the highlight handler alone
\* __process_tile_highlight_chunk on its own, for every header the child can
\* send into an image large enough for brackets shorter than their tile: the
\* render has reached the handler, the 16 bytes of the header are read.

HighlightScenes ==
    { Scene(HighlightImage, HighlightImage, FALSE, 0, 4, 0, 4, 1),
      Scene(HighlightImage, HighlightImage, TRUE, 1, 3, 1, 3, 1) }

HighlightTiles ==
    [x : 0..HighlightImage, y : 0..HighlightImage,
     w : 0..HighlightImage, h : 0..HighlightImage, c : {0}]

HighlightInit ==
    /\ config \in HighlightScenes
    /\ tile \in HighlightTiles
    /\ stream = Encode(TileHighlightChunk(tile.x, tile.y, tile.w, tile.h))
    /\ pos = ChunkHeaderSize + HighlightHeaderSize
    /\ eof = FALSE
    /\ cancel = FALSE
    /\ pc = "highlight_check"
    /\ proc = "running"
    /\ win = RenderWindow(config)
    /\ rendered_pixels = 0
    /\ total_pixels = TotalPixels(RenderWindow(config), config.passes)
    /\ chunk = [type |-> 2, size |-> HighlightHeaderSize]
    /\ tile_size = 0
    /\ tile_data = << >>
    /\ exc = "none"
    /\ sink = << >>
    /\ render_lock = TRUE
    /\ rpc = [t \in Threads |-> IF t = 1 THEN "project" ELSE "idle"]
    /\ child = [t \in Threads |-> "none"]

HighlightSpec == HighlightInit /\ [][DrawHighlight]_vars

\* ------------------------------------------------------- render() and lock
\* The threads that call render(), each once.  What a call does between the
\* launch of the child and the end of its streaming loop is the decoding
\* above; here only the way the loop is left matters.

RenderInit ==
    /\ render_lock = FALSE
    /\ rpc = [t \in Threads |-> "idle"]
    /\ child = [t \in Threads |-> "none"]
    /\ config = Scene(Width, Height, FALSE, 0, 4, 0, 4, 1)
    /\ stream = << >>
    /\ pos = 0
    /\ eof = FALSE
    /\ cancel = FALSE
    /\ pc = "start"
    /\ proc = "none"
    /\ win = NoWindow
    /\ rendered_pixels = 0
    /\ total_pixels = 0
    /\ chunk = NoChunk
    /\ tile = NoTile
    /\ tile_size = 0
    /\ tile_data = << >>
    /\ exc = "none"
    /\ sink = << >>

\* Line 59: with RenderAppleseed.render_lock -- blocks until the lock is free.
LockIsFree == ~render_lock

Acquire(t) ==
    /\ rpc[t] = "idle"
    /\ LockIsFree
    /\ render_lock' = TRUE
    /\ rpc' = [rpc EXCEPT ![t] = "render"]
    /\ UNCHANGED child
    /\ UNCHANGED streamVars

\* Lines 60-154: a preview in background mode does nothing; __render_scene
\* and __render_material_preview either return early (a directory that
\* cannot be created, a thumbnail, no preview object or material, a failed
\* export) or call __render_project_file.
Prepare(t) ==
    /\ rpc[t] = "render"
    /\ \E early \in BOOLEAN :
         rpc' = [rpc EXCEPT ![t] = IF early THEN "leave" ELSE "project"]
    /\ UNCHANGED << render_lock, child >>
    /\ UNCHANGED streamVars

\* Lines 156-208: return when the binary directory is unset or no directory,
\* or when Popen raises OSError; else the child runs.
LaunchChild(t) ==
    /\ rpc[t] = "project"
    /\ \/ rpc' = [rpc EXCEPT ![t] = "leave"] /\ UNCHANGED child
       \/ rpc' = [rpc EXCEPT ![t] = "streaming"]
          /\ child' = [child EXCEPT ![t] = "running"]
    /\ UNCHANGED render_lock
    /\ UNCHANGED streamVars

\* Lines 213-235: the loop is left by its condition or by a break.
LoopEnds(t) ==
    /\ rpc[t] = "streaming"
    /\ rpc' = [rpc EXCEPT ![t] = "kill"]
    /\ UNCHANGED << render_lock, child >>
    /\ UNCHANGED streamVars

\* Lines 220, 250, 308, 314: struct.unpack or the progress division raises;
\* the exception leaves __render_project_file past line 238.
LoopRaises(t) ==
    /\ rpc[t] = "streaming"
    /\ rpc' = [rpc EXCEPT ![t] = "raise"]
    /\ UNCHANGED << render_lock, child >>
    /\ UNCHANGED streamVars

\* Lines 238-246: process.kill(), then the cache clean-up, which returns or
\* raises.
KillChild(t) ==
    /\ rpc[t] = "kill"
    /\ child' = [child EXCEPT ![t] = "killed"]
    /\ \E outcome \in {"leave", "raise"} : rpc' = [rpc EXCEPT ![t] = outcome]
    /\ UNCHANGED render_lock
    /\ UNCHANGED streamVars

\* Release with the lock given back only when the body returns.
ReleaseOnReturnOnly(t) ==
    /\ rpc[t] \in {"leave", "raise"}
    /\ render_lock' = (rpc[t] = "raise")
    /\ rpc' = [rpc EXCEPT ![t] = IF rpc[t] = "leave" THEN "returned" ELSE "raised"]
    /\ UNCHANGED child
    /\ UNCHANGED streamVars

\* Line 59: the with statement releases the lock however its body is left.
Release(t) ==
    /\ rpc[t] \in {"leave", "raise"}
    /\ render_lock' = FALSE
    /\ rpc' = [rpc EXCEPT ![t] = IF rpc[t] = "leave" THEN "returned" ELSE "raised"]
    /\ UNCHANGED child
    /\ UNCHANGED streamVars

\* A child nobody killed ends by itself sooner or later, or never.
ChildExits(t) ==
    /\ child[t] = "running"
    /\ child' = [child EXCEPT ![t] = "exited"]
    /\ UNCHANGED << render_lock, rpc >>
    /\ UNCHANGED streamVars

RenderNext ==
    \E t \in Threads :
        \/ Acquire(t)
        \/ Prepare(t)
        \/ LaunchChild(t)
        \/ LoopEnds(t)
        \/ LoopRaises(t)
        \/ KillChild(t)
        \/ Release(t)
        \/ ChildExits(t)

RenderSpec == RenderInit /\ [][RenderNext]_vars

\* The calls of render() that are inside the with block.
InRender == { t \in Threads : rpc[t] \in {"render", "project", "streaming", "kill", "leave", "raise"} }

\* ================================================================== claims

\* The number of bytes the os.read at pc asks for.
Requested ==
    CASE pc = "chunk_header" -> ChunkHeaderSize
      [] pc = "tile_header" -> TileHeaderSize
      [] pc = "highlight_header" -> HighlightHeaderSize
      [] pc = "skip" -> chunk.size
      [] OTHER -> 0

\* C1 (exact read): a step that reads a chunk header, a tile-data header, a
\* tile-highlight header or the payload of a skipped chunk moves on only with
\* exactly the bytes it asked for, or when the source has signalled closure;
\* and a tile is processed only with its whole payload.
C1_ExactRead ==
    [][ /\ (pc \in {"chunk_header", "tile_header", "highlight_header", "skip"} /\ pc' /= pc)
           => (pos' - pos = Requested \/ eof')
        /\ (pc = "tile_check" /\ pc' /= pc /\ ~cancel)
           => Len(tile_data) = tile_size ]_vars

\* The stream closed when only part of the tile payload had been delivered.
TruncatedPayload == eof /\ pc = "tile_data" /\ Len(tile_data) < tile_size

\* C2 (truncated payload terminates): once the stream has closed in the
\* middle of a tile payload, either cancellation is requested or the child is
\* eventually killed.
C2_TruncatedPayloadTerminates == TruncatedPayload ~> (cancel \/ proc = "killed")

\* C3 (no partial tile): while a tile-data chunk is being handled, the sink is
\* called and rendered_pixels changed only at the end, with the source still
\* open and every payload byte the header declares read.
C3_NoPartialTile ==
    [][ (/\ pc \in {"tile_header", "tile_data", "tile_check", "tile_progress"}
         /\ (sink' /= sink \/ rendered_pixels' /= rendered_pixels))
        => (/\ pc \in {"tile_check", "tile_progress"}
            /\ ~eof
            /\ tile_size = tile.w * tile.h * tile.c * 4
            /\ Len(tile_data) = tile_size) ]_vars

\* A first tile was committed, then the stream closed in the middle of the
\* payload of a second one.
C3_Witness ==
    /\ TruncatedPayload
    /\ Len(tile_data) > 0
    /\ Len(sink) = 2
    /\ sink[1].op = "result"

\* C4 (process terminated on every exit): once the child is spawned, the
\* render function is not left, by return or by exception, with the child
\* not killed.
C4_KilledOnEveryExit ==
    (pc \in {"returned", "raised"} /\ proc /= "none") => proc = "killed"

\* C5 (render serialization): at every moment at most one call of render()
\* is inside the lock, and at most one appleseed.cli child is running.
C5_RenderSerialized ==
    /\ Cardinality(InRender) <= 1
    /\ Cardinality({ t \in Threads : child[t] = "running" }) <= 1

\* C6 (cooperative cancellation): a chunk header is read only after a check
\* that found the flag unset; a check that finds it set goes to the kill
\* with nothing read and nothing drawn, and the kill terminates the child.
C6_CooperativeCancel ==
    [][ /\ (pc' = "chunk_header" /\ pc /= "chunk_header")
           => (pc = "test_break" /\ ~cancel)
        /\ (pc = "test_break" /\ cancel /\ pc' /= pc)
           => (pc' = "kill" /\ pos' = pos /\ sink' = sink)
        /\ (pc = "kill" /\ pc' /= pc)
           => (proc' = "killed" /\ pos' = pos /\ sink' = sink) ]_vars

\* A highlight chunk was drawn, the flag was found set at the next check, and
\* the render returned with the child killed and the rest of the stream unread.
C6_Witness ==
    /\ pc = "returned" /\ cancel /\ proc = "killed" /\ ~eof
    /\ pos = ChunkHeaderSize + HighlightHeaderSize
    /\ Len(stream) > pos
    /\ UnpackU32(stream, 0) = 2
    /\ Len(sink) = 8

\* C7 (truncated header is recoverable): the render never ends in an uncaught
\* struct.error with the source closed, which is what a stream that closes
\* inside a header would have to avoid.
C7_TruncatedHeaderRecoverable == ~(pc = "raised" /\ exc = "struct.error" /\ eof)

\* C8 (clean end of stream): a chunk-header read that returns no bytes leaves
\* the loop for the kill with no exception and no further sink call, no
\* decoded tile is pending at a header read, and the kill terminates the
\* child.
C8_CleanEndOfStream ==
    [][ /\ (pc = "chunk_header" /\ pc' /= pc /\ pos' = pos)
           => (pc' = "kill" /\ eof' /\ exc' = "none" /\ sink' = sink
               /\ rendered_pixels' = rendered_pixels)
        /\ pc = "chunk_header" => (tile = NoTile /\ tile_data = << >>)
        /\ (pc = "kill" /\ pc' /= pc)
           => (proc' = "killed" /\ sink' = sink /\ rendered_pixels' = rendered_pixels) ]_vars

\* The whole stream was read, a tile was delivered, the source closed at a
\* chunk boundary and the render returned with the child killed.
C8_Witness ==
    /\ pc = "returned" /\ eof /\ ~cancel /\ proc = "killed" /\ exc = "none"
    /\ pos = Len(stream)
    /\ rendered_pixels > 0

\* C9 (unknown chunk skip): skipping a chunk of unknown type consumes exactly
\* the size its header declares, unless the source closes, and changes
\* neither the sink nor the counters.
C9_UnknownChunkSkip ==
    [][ (pc = "skip" /\ pc' /= pc /\ ~eof')
        => (/\ pos' = pos + chunk.size
            /\ sink' = sink
            /\ rendered_pixels' = rendered_pixels
            /\ total_pixels' = total_pixels) ]_vars

\* The four ways a tile lies fully outside the window.
FullyOutside ==
    \/ tile.x > win.max_x
    \/ tile.x + tile.w - 1 < win.min_x
    \/ tile.y > win.max_y
    \/ tile.y + tile.h - 1 < win.min_y

\* C10 (outside tiles are ignored): handling a tile-data or tile-highlight
\* chunk whose rectangle is fully outside the window calls no sink, leaves
\* rendered_pixels and total_pixels as they are, raises nothing and, unless
\* cancellation was requested, goes on to the next chunk.
C10_OutsideIgnored ==
    [][ (pc \in {"tile_check", "highlight_check"} /\ pc' /= pc /\ FullyOutside)
        => (/\ sink' = sink
            /\ rendered_pixels' = rendered_pixels
            /\ total_pixels' = total_pixels
            /\ exc' = "none"
            /\ ~cancel => pc' = "test_break") ]_vars

\* A tile-data chunk right of the window was read whole and ignored, and the
\* loop is back at its check.
C10_Witness ==
    /\ pc = "test_break" /\ ~cancel /\ ~eof
    /\ pos = ChunkHeaderSize + TileHeaderSize + 4
    /\ UnpackU32(stream, 0) = 1
    /\ UnpackU32(stream, 2) > win.max_x
    /\ sink = << >>
    /\ rendered_pixels = 0

\* The RenderWindow invariant: min <= max on both axes, inside the image.
WindowWellFormed ==
    /\ 0 <= win.min_x /\ win.min_x <= win.max_x /\ win.max_x <= config.width - 1
    /\ 0 <= win.min_y /\ win.min_y <= win.max_y /\ win.max_y <= config.height - 1

\* C11 (degenerate window is rejected): whenever the child has been launched,
\* and so whenever a chunk is read, the window satisfies min_x <= max_x and
\* min_y <= max_y inside [0, width-1] x [0, height-1] and total_pixels is
\* positive; a configuration with a degenerate window never gets a child.
C11_DegenerateWindowRejected ==
    proc /= "none" => (WindowWellFormed /\ total_pixels > 0)

\* The tile has pixels and its rectangle lies within the window.
FullyInside ==
    /\ tile.w >= 1 /\ tile.h >= 1
    /\ win.min_x <= tile.x /\ tile.x + tile.w - 1 <= win.max_x
    /\ win.min_y <= tile.y /\ tile.y + tile.h - 1 <= win.max_y

\* The channel_count samples of the source pixel at column col of row row of
\* the tile, rows counted from the top of the tile.
SourcePixel(floats, col, row) ==
    SubSeq(floats, (row * tile.w + col) * tile.c + 1, (row * tile.w + col) * tile.c + tile.c)

\* The accepted tile's call on the sink, seen from the step that makes it.
Emitted == sink'[Len(sink) + 1]

\* C12 (row-order inversion): for a tile-data chunk fully inside the window,
\* whatever its channel count, row r of the emitted buffer (r = 0 the bottom
\* row) holds the samples of source row h - 1 - r, each pixel with its
\* channel_count samples.
C12_RowOrderInversion ==
    [][ (pc = "tile_check" /\ pc' /= pc /\ ~cancel /\ FullyInside)
        => (/\ Len(sink') > Len(sink)
            /\ Emitted.op = "result"
            /\ Emitted.rect =
                 [k \in 1..(tile.w * tile.h) |->
                    SourcePixel(FromString(tile_data), (k - 1) % tile.w,
                                tile.h - 1 - ((k - 1) \div tile.w))]) ]_vars


\* C13 (progress accounting): rendered_pixels is 0 when a render starts and
\* never decreases; it changes only when a tile-data chunk is accepted, by
\* exactly take_x * take_y, which for a tile fully inside the window is the
\* tile's area; highlight and unknown chunks leave it alone; total_pixels is
\* not changed once the stream has started.
C13_ProgressAccounting ==
    [][ /\ (pc = "start" /\ pc' /= pc) => rendered_pixels' = 0
        /\ rendered_pixels' >= rendered_pixels
        /\ (pc /= "start" /\ rendered_pixels' /= rendered_pixels)
           => (/\ pc = "tile_progress" /\ ~FullyOutside
               /\ rendered_pixels' = rendered_pixels
                                       + Clip(tile, win).take_x * Clip(tile, win).take_y)
        /\ (pc = "tile_progress" /\ pc' /= pc /\ FullyInside)
           => rendered_pixels' = rendered_pixels + tile.w * tile.h
        /\ pc \in {"highlight_header", "highlight_check", "skip"}
           => rendered_pixels' = rendered_pixels
        /\ pc /= "start" => total_pixels' = total_pixels ]_vars


\* The calls on the sink that commit a tile-data chunk: each is followed at
\* once by the report of progress.
TileResults ==
    { i \in 1..(Len(sink) - 1) : sink[i].op = "result" /\ sink[i + 1].op = "progress" }

\* How often the pixel (px, py) of the window has been delivered.
Deliveries(px, py) ==
    Cardinality({ i \in TileResults :
                    /\ sink[i].x <= px /\ px < sink[i].x + sink[i].w
                    /\ sink[i].y <= py /\ py < sink[i].y + sink[i].h })

\* Each pixel of the window has been delivered at most pass_count times.
WithinPasses ==
    \A px \in 0..(win.max_x - win.min_x), py \in 0..(win.max_y - win.min_y) :
        Deliveries(px, py) <= config.passes

\* The fraction rendered / total lies in [0, 1].
InUnitInterval(rendered, total) ==
    \/ total > 0 /\ 0 <= rendered /\ rendered <= total
    \/ total < 0 /\ total <= rendered /\ rendered <= 0

\* C14 (progress fraction bound): as long as each pixel of the window has been
\* delivered at most pass_count times, every value passed to the progress
\* callback is over total_pixels, the latest one is rendered_pixels over it,
\* and each lies in [0, 1].
C14_ProgressFractionBound ==
    WithinPasses =>
        \A i \in 1..Len(sink) :
            sink[i].op = "progress" =>
                /\ sink[i].total = total_pixels
                /\ (\A j \in (i + 1)..Len(sink) : sink[j].op /= "progress")
                   => sink[i].rendered = rendered_pixels
                /\ InUnitInterval(sink[i].rendered, sink[i].total)


\* The pixels of the tile and of the window, in image coordinates.
TilePixels ==
    (tile.x..(tile.x + tile.w - 1)) \X (tile.y..(tile.y + tile.h - 1))

WindowPixels == (win.min_x..win.max_x) \X (win.min_y..win.max_y)

\* The tile has at least one pixel in the window.
Overlapping == TilePixels \cap WindowPixels /= {}

\* The pixels that skipping skip_x columns and skip_y rows of the tile and
\* taking take_x columns and take_y rows denotes.
Taken(cl) ==
    ((tile.x + cl.skip_x)..(tile.x + cl.skip_x + cl.take_x - 1))
      \X ((tile.y + cl.skip_y)..(tile.y + cl.skip_y + cl.take_y - 1))

\* C15 (clipping result): for every tile-data chunk overlapping the window,
\* (skip_x, skip_y, take_x, take_y) denotes exactly the intersection of the
\* tile rectangle and the window, and the rectangle committed has that size;
\* for a tile fully inside, take_x = w, take_y = h and skip_x = skip_y = 0.
C15_ClippingResult ==
    [][ (pc = "tile_check" /\ pc' /= pc /\ ~cancel /\ Overlapping)
        => (/\ Taken(Clip(tile, win)) = TilePixels \cap WindowPixels
            /\ Len(sink') > Len(sink)
            /\ Emitted.op = "result"
            /\ Emitted.w = Clip(tile, win).take_x
            /\ Emitted.h = Clip(tile, win).take_y
            /\ FullyInside
               => (/\ Clip(tile, win).take_x = tile.w /\ Clip(tile, win).take_y = tile.h
                   /\ Clip(tile, win).skip_x = 0 /\ Clip(tile, win).skip_y = 0
                   /\ Emitted.w = tile.w /\ Emitted.h = tile.h)) ]_vars

\* The row across the image was clipped on both sides by the border window
\* and its two middle pixels committed.
C15_Witness ==
    /\ pos = ChunkHeaderSize + TileHeaderSize + 16
    /\ pc = "test_break"
    /\ UnpackU32(stream, 4) = 4
    /\ win.min_x = 1 /\ win.max_x = 2
    /\ Len(sink) = 2
    /\ sink[1].op = "result" /\ sink[1].w = 2 /\ sink[1].h = 1


\* The first and last column and the first and last row of the intersection
\* of an overlapping tile and the window, in image coordinates.
IntersectionLeft == Max(tile.x, win.min_x)
IntersectionRight == Min(tile.x + tile.w - 1, win.max_x)
IntersectionTop == Max(tile.y, win.min_y)
IntersectionBottom == Min(tile.y + tile.h - 1, win.max_y)

\* The call on the sink that is made at (dest_x0, dest_y0): the committed
\* rectangle of a tile-data chunk, the fifth segment of a highlight's bracket.
Anchor == IF pc = "tile_check" THEN sink'[Len(sink) + 1] ELSE sink'[Len(sink) + 5]

\* C16 (vertical flip): for every overlapping tile, of a tile-data or a
\* tile-highlight chunk, dest_x0 = ix0 - min_x and dest_y0 = max_y - iy1; a
\* tile whose last row is the window's last row has dest_y0 = 0, and a tile
\* whose first row is the window's first row has
\* dest_y0 + take_y - 1 = max_y - min_y.
C16_VerticalFlip ==
    [][ (/\ pc \in {"tile_check", "highlight_check"} /\ pc' /= pc
         /\ ~(pc = "tile_check" /\ cancel)
         /\ Overlapping)
        => (/\ Len(sink') > Len(sink)
            /\ Anchor.x = IntersectionLeft - win.min_x
            /\ Anchor.y = win.max_y - IntersectionBottom
            /\ tile.y + tile.h - 1 = win.max_y => Anchor.y = 0
            /\ tile.y = win.min_y
               => Anchor.y + (IntersectionBottom - IntersectionTop + 1) - 1
                    = win.max_y - win.min_y) ]_vars

\* The 1x2 tile on the last rows of the image was committed at the bottom of
\* the destination, row 0.
C16_Witness ==
    /\ pos = ChunkHeaderSize + TileHeaderSize + 8
    /\ pc = "test_break"
    /\ UnpackU32(stream, 3) = 2 /\ UnpackU32(stream, 5) = 2
    /\ win.max_y = 3
    /\ Len(sink) = 2
    /\ sink[1].op = "result" /\ sink[1].x = 1 /\ sink[1].y = 0 /\ sink[1].h = 2


\* The clipped rectangle in destination coordinates, rows counted from the
\* bottom of the window.
DestRect ==
    [x0 |-> IntersectionLeft - win.min_x, x1 |-> IntersectionRight - win.min_x,
     y0 |-> win.max_y - IntersectionBottom, y1 |-> win.max_y - IntersectionTop]

\* The lengths of the bracket's strokes.
HorizontalLength == Min(5, DestRect.x1 - DestRect.x0 + 1)
VerticalLength == Min(5, DestRect.y1 - DestRect.y0 + 1)

\* The four corners of the clipped rectangle and the two strokes of each.
Strokes == ({"left", "right"} \X {"low", "high"}) \X {"horizontal", "vertical"}

\* The stroke k: it starts in its corner and runs into the rectangle.
Stroke(k) ==
    LET side == k[1][1]
        level == k[1][2]
    IN  IF k[2] = "horizontal"
        THEN [x |-> IF side = "left" THEN DestRect.x0
                    ELSE DestRect.x1 - HorizontalLength + 1,
              y |-> IF level = "low" THEN DestRect.y0 ELSE DestRect.y1,
              w |-> HorizontalLength, h |-> 1]
        ELSE [x |-> IF side = "left" THEN DestRect.x0 ELSE DestRect.x1,
              y |-> IF level = "low" THEN DestRect.y0
                    ELSE DestRect.y1 - VerticalLength + 1,
              w |-> 1, h |-> VerticalLength]

\* The rectangle of the i-th call the step makes on the sink.
Drawn(i) ==
    [x |-> sink'[Len(sink) + i].x, y |-> sink'[Len(sink) + i].y,
     w |-> sink'[Len(sink) + i].w, h |-> sink'[Len(sink) + i].h]

\* C17 (highlight bracket): for every tile-highlight chunk overlapping the
\* window exactly 8 segments are handed to the sink, a horizontal and a
\* vertical one for each corner of the clipped destination rectangle, each 1
\* pixel thick and filled, the horizontal ones min(5, clipped width) long and
\* the vertical ones min(5, clipped height) long.
C17_HighlightBracket ==
    [][ (pc = "highlight_check" /\ pc' /= pc /\ Overlapping)
        => (/\ Len(sink') = Len(sink) + 8
            /\ \A i \in 1..8 :
                 /\ sink'[Len(sink) + i].op = "result"
                 /\ Len(sink'[Len(sink) + i].rect) = Drawn(i).w * Drawn(i).h
            /\ \A k \in Strokes :
                 Cardinality({ i \in 1..8 : Drawn(i) = Stroke(k) })
                   = Cardinality({ j \in Strokes : Stroke(j) = Stroke(k) })) ]_vars

\* The bracket of a 3x3 tile was drawn: eight segments, each 3 pixels long.
C17_Witness ==
    /\ pc = "test_break"
    /\ UnpackU32(stream, 4) = 3 /\ UnpackU32(stream, 5) = 3
    /\ Len(sink) = 8
    /\ \A i \in 1..8 : sink[i].w * sink[i].h = 3


\* C18 (one chunk per iteration, commit before progress): an accepted
\* tile-data chunk is committed to the sink first, with rendered_pixels not yet
\* changed; then rendered_pixels is increased and progress reported; only then
\* is the cancel flag checked again and the next chunk header read, with no
\* tile left in flight.  Nothing is read while a chunk is drawn and nothing is
\* drawn while a chunk is read.
C18_CommitBeforeProgress ==
    [][ /\ (pc = "tile_check" /\ sink' /= sink)
           => (/\ sink' = Append(sink, Emitted) /\ Emitted.op = "result"
               /\ rendered_pixels' = rendered_pixels
               /\ pc' = "tile_progress")
        /\ (pc' = "tile_progress" /\ pc /= "tile_progress")
           => (pc = "tile_check" /\ Len(sink') = Len(sink) + 1)
        /\ (pc = "tile_progress" /\ pc' /= pc)
           => (/\ Len(sink) > 0 /\ sink[Len(sink)].op = "result"
               /\ rendered_pixels'
                    = rendered_pixels + sink[Len(sink)].w * sink[Len(sink)].h
               /\ pc' \in {"test_break", "raised"}
               /\ pc' = "test_break"
                  => sink' = Append(sink, Progress(rendered_pixels', total_pixels))
               /\ pc' = "raised" => sink' = sink)
        /\ (Len(sink') > Len(sink) /\ sink'[Len(sink')].op = "progress")
           => pc = "tile_progress"
        /\ (pc /= "start" /\ rendered_pixels' /= rendered_pixels) => pc = "tile_progress"
        /\ pc \in {"test_break", "chunk_header"} => (tile = NoTile /\ tile_data = << >>)
        /\ sink' /= sink => (pos' = pos /\ pc \in {"tile_check", "tile_progress",
                                                    "highlight_check"})
        /\ pos' /= pos => (sink' = sink /\ rendered_pixels' = rendered_pixels) ]_vars

\* A first tile was committed, counted and reported; a second one has been
\* read and committed and is not counted yet.
C18_Witness ==
    /\ pc = "tile_progress"
    /\ Len(sink) = 3
    /\ sink[1].op = "result" /\ sink[2].op = "progress" /\ sink[3].op = "result"
    /\ sink[3].w * sink[3].h > 0
    /\ rendered_pixels = sink[2].rendered
    /\ rendered_pixels = sink[1].w * sink[1].h


\* C19 (clipped pixel mapping): for every 4-channel tile-data chunk that
\* overlaps the window, partially or fully, the committed buffer has exactly
\* take_x * take_y pixels, and the pixel at destination column i of
\* destination row r (row 0 the bottom one) is the source pixel at image
\* coordinates (ix0 + i, iy1 - r).
C19_ClippedPixelMapping ==
    [][ (pc = "tile_check" /\ pc' /= pc /\ ~cancel /\ Overlapping /\ tile.c = 4)
        => (/\ Len(sink') > Len(sink)
            /\ Emitted.op = "result"
            /\ Len(Emitted.rect)
                 = (IntersectionRight - IntersectionLeft + 1)
                     * (IntersectionBottom - IntersectionTop + 1)
            /\ \A r \in 0..(IntersectionBottom - IntersectionTop),
                  i \in 0..(IntersectionRight - IntersectionLeft) :
                 Emitted.rect[r * (IntersectionRight - IntersectionLeft + 1) + i + 1]
                   = SourcePixel(FromString(tile_data),
                                 IntersectionLeft + i - tile.x,
                                 IntersectionBottom - r - tile.y)) ]_vars

\* The 2x2 four-channel tile in the corner of the image was clipped by the
\* border window to its last pixel, samples 65 to 80, and committed.
C19_Witness ==
    /\ pos = ChunkHeaderSize + TileHeaderSize + 64
    /\ pc = "test_break"
    /\ UnpackU32(stream, 6) = 4
    /\ win.min_x = 1 /\ win.min_y = 1
    /\ Len(sink) = 2
    /\ sink[1].op = "result" /\ sink[1].w = 1 /\ sink[1].h = 1
    /\ sink[1].rect = << << 65, 70, 75, 80 >> >>


\* The rectangle of a call on the sink has pixels and lies in the window, in
\* destination coordinates.
InsideDestination(call) ==
    /\ call.w >= 1 /\ call.h >= 1
    /\ 0 <= call.x /\ call.x + call.w - 1 <= win.max_x - win.min_x
    /\ 0 <= call.y /\ call.y + call.h - 1 <= win.max_y - win.min_y

\* C20 (every display-sink call is inside the window): when the window
\* satisfies the RenderWindow invariant, whatever x, y, w, h the headers
\* carry (w = 0 and h = 0 included), every rectangle handed to the sink, of a
\* tile-data chunk or of a bracket segment, has width and height at least 1
\* and lies within [0, max_x - min_x] x [0, max_y - min_y].
C20_SinkCallsInsideWindow ==
    WindowWellFormed =>
        \A i \in 1..Len(sink) : sink[i].op = "result" => InsideDestination(sink[i])


\* A tile-data chunk is in flight, payload being read or just read, and the
\* cancellation flag is set.
CancelledInFlight == pc \in {"tile_data", "tile_check"} /\ cancel

\* C21 (cancellation discards the tile in flight): once the flag is set
\* during or right after the payload read of a tile-data chunk, whole payload
\* received or not, nothing more is read, the tile is not handed to the sink,
\* rendered_pixels is not changed, the loop is left for the kill, and the
\* child is killed.
C21_CancellationDiscardsTile ==
    /\ [][ /\ CancelledInFlight
              => (/\ pos' = pos /\ sink' = sink /\ rendered_pixels' = rendered_pixels
                  /\ pc = "tile_data" => pc' \in {"tile_data", "tile_check"}
                  /\ pc = "tile_check" => pc' \in {"tile_check", "kill"})
           /\ (pc = "kill" /\ pc' /= pc)
              => (/\ proc' = "killed"
                  /\ sink' = sink /\ rendered_pixels' = rendered_pixels) ]_vars
    /\ CancelledInFlight ~> (proc = "killed")

\* The whole payload of the 1x2 tile, inside the window, was received, the
\* flag was found set, and the render ended with the child killed and the
\* tile neither drawn nor counted.
C21_Witness ==
    /\ pos = ChunkHeaderSize + TileHeaderSize + 8
    /\ pc \in {"returned", "raised"}
    /\ cancel /\ proc = "killed"
    /\ UnpackU32(stream, 0) = 1 /\ UnpackU32(stream, 4) = 1 /\ UnpackU32(stream, 5) = 2
    /\ win = [min_x |-> 0, min_y |-> 0, max_x |-> 3, max_y |-> 3]
    /\ sink = << >>
    /\ rendered_pixels = 0


\* C22 (render lock is always released): the lock is held exactly while a
\* call of render() is inside the with block, so once every call that
\* entered has ended -- by return, by an early return before the launch, or
\* by an exception from the streaming loop -- the lock is free, and a call
\* that waits for it waits only while another one is still running.
C22_LockAlwaysReleased == render_lock <=> InRender /= {}

\* A call of render() ended with an exception from the streaming loop, its
\* child still running, and another call has since taken the lock.
C22_Witness ==
    \E t, u \in Threads :
        /\ rpc[t] = "raised" /\ child[t] = "running"
        /\ rpc[u] = "streaming"
        /\ render_lock

=============================================================================
